---------------------------- MODULE Spec2Model ----------------------------
(***************************************************************************)
(* GitSavvy, github/commands/pull_request.py: GsPullRequestCommand.        *)
(*                                                                         *)
(* One window's command object (self.pull_requests, self.pr), the panels   *)
(* it opens, the editor's two threads (the UI thread that runs run() and   *)
(* every panel callback, the async thread that runs run_async), the local  *)
(* git repository the commands act on, and the record of every git command *)
(* issued.  A git command is an external process: self.git() issues it and *)
(* blocks the calling thread until it exits, so a handler that calls       *)
(* self.git() is one action up to each call and one action per return.     *)
(***************************************************************************)
EXTENDS Integers, Sequences, FiniteSets, TLC

\* Bounds of the model.
NumPRs == 2                \* open pull requests the hosting API may list
MaxMaterializations == 2   \* fetch_and_checkout_pr / create_branch_for_pr calls
MaxQueued == 1             \* run_async calls waiting on the async thread

VARIABLES
    pull_requests,   \* self.pull_requests: numbers of the listed pull requests
    pr,              \* self.pr: None, or the pull request selected last
    quick_panel,     \* the quick panel on screen: its callback and its items
    input_panel,     \* the input panel on screen: its on_done and initial text,
                     \* and the menu entry that opened it
    async_queue,     \* run_async calls scheduled by set_timeout_async
    ui,              \* the UI thread: the handler it is inside and where
    status_message,  \* the text of the last sublime.status_message
    listing,         \* what the hosting API answered the last run_async,
                     \* "pending" while that run_async waits for the answer
    branches,        \* local repository: branch name -> commit
    HEAD,            \* local repository: what is checked out
    objects,         \* local repository: commits in the object database
    started,         \* how many materializations have been started
    mats,            \* the materializations on record: those that have not ended
                     \* and the last that has
    log,             \* the git commands of the materializations on record, in order
    http_gets,       \* URLs fetched (interwebs.get_url) by the UI callback called last
    browser          \* URLs handed to webbrowser.open by the UI callback called last

vars == <<pull_requests, pr, quick_panel, input_panel, async_queue, ui,
          status_message, listing, branches, HEAD, objects, started, mats, log,
          http_gets, browser>>

repo == <<branches, HEAD, objects>>

-----------------------------------------------------------------------------
\* Python values.

\* None, and a value v that is not None.
None == <<>>
Some(v) == <<v>>

\* The pull request object number n as the hosting API returns it.
PullRequest(n) ==
    [number   |-> n,
     head     |-> [repo |-> [clone_url |-> "https://github.com/user" \o ToString(n) \o "/widgets.git"],
                   ref  |-> "feature-" \o ToString(n),
                   sha  |-> "sha" \o ToString(n)],
     diff_url |-> "https://github.com/acme/widgets/pull/" \o ToString(n) \o ".diff",
     html_url |-> "https://github.com/acme/widgets/pull/" \o ToString(n)]

\* "pull-request-{}".format(self.pr["number"])
InitialText(p) == "pull-request-" \o ToString(p.number)

\* What the user may submit in an input panel opened with initial text `text`:
\* the text as offered, nothing at all, or a text typed instead: a name no
\* branch has, the name of an existing branch, the text offered for another
\* pull request.
Submissions(text) ==
    {text, "", "topic", "master"} \cup {InitialText(PullRequest(n)) : n \in 1..NumPRs}

\* Python truth of an optional string: None and "" are false.
Truthy(branch_name) == branch_name # None /\ branch_name[1] # ""

\* branch_name or self.pr["head"]["sha"]
OrSha(branch_name, p) == IF Truthy(branch_name) THEN branch_name[1] ELSE p.head.sha

-----------------------------------------------------------------------------
\* The local repository and the git executable.

BranchNames == {b[1] : b \in branches}

\* The commit a remote branch points at: the head of the pull request made
\* from that branch.
RemoteCommits(clone_url, ref) ==
    {PullRequest(n).head.sha : n \in {k \in 1..NumPRs :
        /\ PullRequest(k).head.repo.clone_url = clone_url
        /\ PullRequest(k).head.ref = ref}}

\* The exit statuses a git command may end with in the present repository.
\* Any command may fail (network, locks, a dirty working tree); "branch" cannot
\* succeed for an invalid or existing name or an absent commit, "checkout"
\* cannot succeed for a ref that names nothing.
GitOutcomes(c) ==
    CASE c.cmd = "fetch" -> {"ok", "failed"}
      [] c.cmd = "branch" ->
            IF c.args[1] = "" \/ c.args[1] \in BranchNames \/ c.args[2] \notin objects
            THEN {"failed"} ELSE {"ok", "failed"}
      [] c.cmd = "checkout" ->
            IF c.args[1] \in BranchNames \/ c.args[1] \in objects
            THEN {"ok", "failed"} ELSE {"failed"}

\* What a git command that exits with `rc` has done to the repository.
GitEffect(c, rc) ==
    /\ objects' = IF rc = "ok" /\ c.cmd = "fetch"
                  THEN objects \cup RemoteCommits(c.args[1], c.args[2]) ELSE objects
    /\ branches' = IF rc = "ok" /\ c.cmd = "branch"
                   THEN branches \cup {<<c.args[1], c.args[2]>>} ELSE branches
    /\ HEAD' = IF rc = "ok" /\ c.cmd = "checkout" THEN c.args[1] ELSE HEAD

\* self.git(cmd, *args), first half: the process is started and the calling
\* thread waits for it.  `l` is the record of commands so far.
git(l, m, cmd, args) == Append(l, [m |-> m, cmd |-> cmd, args |-> args, rc |-> "running"])

\* self.checkout_ref(ref) runs git checkout <ref>.
checkout_ref(l, m, ref) == git(l, m, "checkout", <<ref>>)

\* The process of command number `at` has exited with `rc`.
Exited(at, rc) == [log EXCEPT ![at].rc = rc]

\* self.git(), second half, on a non-zero exit: it raises, the exception leaves
\* the handler, and the materialization has failed at that command.
Raised(m, step) == [mats EXCEPT ![m].outcome = "Failed", ![m].step = step]

\* The handler returns normally.
Returned(m) == [mats EXCEPT ![m].outcome = "Done"]

-----------------------------------------------------------------------------
\* The threads and the panels.

Idle == [pc |-> "idle", handler |-> "", branch_name |-> None, m |-> 0, at |-> 0]
NoQuickPanel == [on_done |-> "", items |-> <<>>]
NoInputPanel == [on_done |-> "", text |-> "", choice |-> -1]

\* As UiFree, but self.git does not block the thread that calls it.
UiFree_not_blocked == TRUE

\* The UI thread runs one callback at a time: a callback is called only when
\* the thread is not inside another one (self.git blocks it).
UiFree == ui.pc = "idle"

\* What github.get_pull_requests may give, a lazy sequence read by the panel: a
\* failure that yields nothing, or the open pull requests 1..k in the API's
\* order.
ApiResults == {[failed |-> TRUE, items |-> <<>>]} \cup
              {[failed |-> FALSE, items |-> [i \in 1..k |-> PullRequest(i)]] : k \in 0..NumPRs}

\* PaginatedPanel.is_empty(): nothing was there to show.
is_empty(items) == Len(items) = 0

NoPullRequests == "No pull requests found."

\* The status message show_paginated_panel is given, put up as it loads.
GettingPullRequests == "Getting pull requests..."

Init ==
    /\ pull_requests = <<>>
    /\ pr = None
    /\ quick_panel = NoQuickPanel
    /\ input_panel = NoInputPanel
    /\ async_queue = 0
    /\ ui = Idle
    /\ status_message = ""
    /\ listing = "none"
    /\ branches = {<<"master", "sha0">>}
    /\ HEAD = "master"
    /\ objects = {"sha0"}
    /\ started = 0
    /\ mats = <<>>
    /\ log = <<>>
    /\ http_gets = <<>>
    /\ browser = <<>>

-----------------------------------------------------------------------------
\* GsPullRequestCommand

\* run(): schedule run_async on the async thread.
run ==
    /\ UiFree
    /\ async_queue < MaxQueued
    /\ async_queue' = async_queue + 1
    /\ http_gets' = <<>> /\ browser' = <<>>
    /\ UNCHANGED <<pull_requests, pr, quick_panel, input_panel, ui, status_message,
                   listing, branches, HEAD, objects, started, mats, log>>

\* run_async(), up to the wait for the listing: self.pull_requests is the new
\* lazy sequence, of which nothing was read yet, and show_paginated_panel puts
\* up its status message and goes to read the first page.  The async thread
\* runs one call at a time.
run_async ==
    /\ async_queue > 0
    /\ listing # "pending"
    /\ async_queue' = async_queue - 1
    /\ pull_requests' = <<>>
    /\ status_message' = GettingPullRequests
    /\ listing' = "pending"
    /\ UNCHANGED <<pr, quick_panel, input_panel, ui, branches, HEAD, objects, started,
                   mats, log, http_gets, browser>>

\* As run_async_listed, but a failure of get_pull_requests is caught and taken
\* for an empty list.
run_async_listed_swallowing(result) ==
    /\ listing = "pending"
    /\ pull_requests' = result.items
    /\ quick_panel' = IF is_empty(result.items) THEN quick_panel
                      ELSE [on_done |-> "on_select_pr", items |-> result.items]
    /\ status_message' = IF is_empty(result.items) THEN NoPullRequests
                         ELSE status_message
    /\ listing' = IF result.failed THEN "failed"
                  ELSE IF Len(result.items) = 0 THEN "empty" ELSE "nonempty"
    /\ UNCHANGED <<pr, input_panel, async_queue, ui, branches, HEAD, objects, started,
                   mats, log, http_gets, browser>>

\* run_async(), from the answer of the hosting API, `result`, to its end.
run_async_listed(result) ==
    /\ listing = "pending"
    /\ pull_requests' = result.items
    /\ IF result.failed
       THEN \* the listing raises inside show_paginated_panel: nothing after it
            \* runs
            /\ listing' = "failed"
            /\ UNCHANGED <<quick_panel, status_message>>
       ELSE /\ quick_panel' = IF is_empty(result.items) THEN quick_panel
                              ELSE [on_done |-> "on_select_pr", items |-> result.items]
            /\ status_message' = IF is_empty(result.items) THEN NoPullRequests
                                 ELSE status_message
            /\ listing' = IF Len(result.items) = 0 THEN "empty" ELSE "nonempty"
    /\ UNCHANGED <<pr, input_panel, async_queue, ui, branches, HEAD, objects, started,
                   mats, log, http_gets, browser>>

\* on_select_pr(pr): None when the list was dismissed.
on_select_pr(p) ==
    /\ UiFree
    /\ quick_panel.on_done = "on_select_pr"
    /\ IF p = None
       THEN /\ quick_panel' = NoQuickPanel
            /\ UNCHANGED pr
       ELSE /\ pr' = p
            /\ quick_panel' = [on_done |-> "on_select_action", items |-> <<>>]
    /\ http_gets' = <<>> /\ browser' = <<>>
    /\ UNCHANGED <<pull_requests, input_panel, async_queue, ui, status_message,
                   listing, branches, HEAD, objects, started, mats, log>>

\* The record kept when a materialization starts: all of it while another
\* materialization has not ended, none of it otherwise.
OnRecord(record) ==
    IF \E i \in 1..Len(mats) : mats[i].outcome = "running" THEN record ELSE <<>>

\* As fetch_and_checkout_pr, but the fetch is left out when the head commit is
\* already in the object database.
fetch_and_checkout_pr_skipping_fetch(choice, branch_name) ==
    /\ started < MaxMaterializations
    /\ started' = started + 1
    /\ mats' = Append(OnRecord(mats), [choice |-> choice, handler |-> "fetch_and_checkout_pr",
                                       branch_name |-> branch_name,
                                       pr |-> pr[1], outcome |-> "running", step |-> ""])
    /\ IF pr[1].head.sha \in objects
       THEN /\ status_message' = "Checking out PR..."
            /\ log' = checkout_ref(OnRecord(log), Len(OnRecord(mats)) + 1,
                                   OrSha(branch_name, pr[1]))
            /\ ui' = [pc |-> "checkout", handler |-> "fetch_and_checkout_pr",
                      branch_name |-> branch_name,
                      m |-> Len(OnRecord(mats)) + 1, at |-> Len(OnRecord(log)) + 1]
       ELSE /\ status_message' = "Fetching PR commit..."
            /\ log' = git(OnRecord(log), Len(OnRecord(mats)) + 1, "fetch",
                          <<pr[1].head.repo.clone_url, pr[1].head.ref>>)
            /\ ui' = [pc |-> "fetch", handler |-> "fetch_and_checkout_pr",
                      branch_name |-> branch_name,
                      m |-> Len(OnRecord(mats)) + 1, at |-> Len(OnRecord(log)) + 1]

\* fetch_and_checkout_pr(branch_name), up to its first self.git call.  `choice`
\* is the menu entry that led to the call, kept for the record.
fetch_and_checkout_pr(choice, branch_name) ==
    /\ started < MaxMaterializations
    /\ started' = started + 1
    /\ status_message' = "Fetching PR commit..."
    /\ mats' = Append(OnRecord(mats), [choice |-> choice, handler |-> "fetch_and_checkout_pr",
                                       branch_name |-> branch_name,
                                       pr |-> pr[1], outcome |-> "running", step |-> ""])
    /\ log' = git(OnRecord(log), Len(OnRecord(mats)) + 1, "fetch",
                  <<pr[1].head.repo.clone_url, pr[1].head.ref>>)
    /\ ui' = [pc |-> "fetch", handler |-> "fetch_and_checkout_pr", branch_name |-> branch_name,
              m |-> Len(OnRecord(mats)) + 1, at |-> Len(OnRecord(log)) + 1]

\* create_branch_for_pr(branch_name), up to its first self.git call.
create_branch_for_pr(choice, branch_name) ==
    /\ started < MaxMaterializations
    /\ started' = started + 1
    /\ status_message' = "Fetching PR commit..."
    /\ mats' = Append(OnRecord(mats), [choice |-> choice, handler |-> "create_branch_for_pr",
                                       branch_name |-> branch_name,
                                       pr |-> pr[1], outcome |-> "running", step |-> ""])
    /\ log' = git(OnRecord(log), Len(OnRecord(mats)) + 1, "fetch",
                  <<pr[1].head.repo.clone_url, pr[1].head.ref>>)
    /\ ui' = [pc |-> "fetch", handler |-> "create_branch_for_pr", branch_name |-> branch_name,
              m |-> Len(OnRecord(mats)) + 1, at |-> Len(OnRecord(log)) + 1]

\* As view_diff_for_pr, but the page of the pull request is requested instead
\* of its diff.
view_diff_for_pr_of_html_url ==
    /\ http_gets' = <<pr[1].html_url>>
    /\ browser' = <<>>

\* view_diff_for_pr(): one GET of the diff, shown in a scratch view.
view_diff_for_pr ==
    /\ http_gets' = <<pr[1].diff_url>>
    /\ browser' = <<>>

\* open_pr_in_browser()
open_pr_in_browser ==
    /\ http_gets' = <<>>
    /\ browser' = <<pr[1].html_url>>

\* As on_select_action, but entry 2 opens its input panel with the callback of
\* entry 1.
on_select_action_same_callback(idx) ==
    /\ UiFree
    /\ quick_panel.on_done = "on_select_action"
    /\ quick_panel' = NoQuickPanel
    /\ http_gets' = IF idx = 3 THEN <<pr[1].diff_url>> ELSE <<>>
    /\ browser' = IF idx = 4 THEN <<pr[1].html_url>> ELSE <<>>
    /\ IF idx = 0
       THEN fetch_and_checkout_pr(0, None) /\ UNCHANGED input_panel
       ELSE /\ input_panel' = IF idx \in {1, 2}
                              THEN [on_done |-> "fetch_and_checkout_pr",
                                    text |-> InitialText(pr[1]), choice |-> idx]
                              ELSE input_panel
            /\ UNCHANGED <<ui, status_message, started, mats, log>>
    /\ UNCHANGED <<pull_requests, pr, async_queue, listing, branches, HEAD, objects>>

\* on_select_action(idx): -1 when the menu was dismissed.
on_select_action(idx) ==
    /\ UiFree
    /\ quick_panel.on_done = "on_select_action"
    /\ quick_panel' = NoQuickPanel
    /\ CASE idx = -1 ->
              /\ http_gets' = <<>> /\ browser' = <<>>
              /\ UNCHANGED <<input_panel, ui, status_message, started, mats, log>>
         [] idx = 0 ->
              /\ fetch_and_checkout_pr(0, None)
              /\ http_gets' = <<>> /\ browser' = <<>>
              /\ UNCHANGED input_panel
         [] idx = 1 ->
              /\ input_panel' = [on_done |-> "fetch_and_checkout_pr", text |-> InitialText(pr[1]),
                                  choice |-> 1]
              /\ http_gets' = <<>> /\ browser' = <<>>
              /\ UNCHANGED <<ui, status_message, started, mats, log>>
         [] idx = 2 ->
              /\ input_panel' = [on_done |-> "create_branch_for_pr", text |-> InitialText(pr[1]),
                                  choice |-> 2]
              /\ http_gets' = <<>> /\ browser' = <<>>
              /\ UNCHANGED <<ui, status_message, started, mats, log>>
         [] idx = 3 ->
              /\ view_diff_for_pr
              /\ UNCHANGED <<input_panel, ui, status_message, started, mats, log>>
         [] idx = 4 ->
              /\ open_pr_in_browser
              /\ UNCHANGED <<input_panel, ui, status_message, started, mats, log>>
    /\ UNCHANGED <<pull_requests, pr, async_queue, listing, branches, HEAD, objects>>

\* The input panel is answered with `text`: its on_done is called.
input_done(text) ==
    /\ UiFree
    /\ input_panel.on_done # ""
    /\ text \in Submissions(input_panel.text)
    /\ input_panel' = NoInputPanel
    /\ IF input_panel.on_done = "fetch_and_checkout_pr"
       THEN fetch_and_checkout_pr(input_panel.choice, Some(text))
       ELSE create_branch_for_pr(input_panel.choice, Some(text))
    /\ http_gets' = <<>> /\ browser' = <<>>
    /\ UNCHANGED <<pull_requests, pr, quick_panel, async_queue, listing,
                   branches, HEAD, objects>>

\* As input_cancel, but dismissing the panel submits the text it offers.
input_cancel_submitting ==
    input_done(input_panel.text)

\* The input panel is dismissed: its on_cancel is None, nothing is called.
input_cancel ==
    /\ UiFree
    /\ input_panel.on_done # ""
    /\ input_panel' = NoInputPanel
    /\ http_gets' = <<>> /\ browser' = <<>>
    /\ UNCHANGED <<pull_requests, pr, quick_panel, async_queue, ui, status_message,
                   listing, branches, HEAD, objects, started, mats, log>>

\* As fetch_and_checkout_pr_fetched, but the exit status of git fetch is not
\* looked at.
fetch_and_checkout_pr_fetched_unchecked(rc) ==
    /\ ui.handler = "fetch_and_checkout_pr" /\ ui.pc = "fetch"
    /\ rc \in GitOutcomes(log[ui.at])
    /\ GitEffect(log[ui.at], rc)
    /\ IF Truthy(ui.branch_name)
       THEN /\ status_message' = "Creating local branch for PR..."
            /\ log' = git(Exited(ui.at, rc), ui.m, "branch",
                          <<ui.branch_name[1], pr[1].head.sha>>)
            /\ ui' = [ui EXCEPT !.pc = "branch", !.at = Len(log) + 1]
       ELSE /\ status_message' = "Checking out PR..."
            /\ log' = checkout_ref(Exited(ui.at, rc), ui.m, OrSha(ui.branch_name, pr[1]))
            /\ ui' = [ui EXCEPT !.pc = "checkout", !.at = Len(log) + 1]
    /\ UNCHANGED <<pull_requests, pr, quick_panel, input_panel, async_queue, listing,
                   started, mats, http_gets, browser>>

\* fetch_and_checkout_pr, from the return of git fetch to the next self.git
\* call or the exception.
fetch_and_checkout_pr_fetched(rc) ==
    /\ ui.handler = "fetch_and_checkout_pr" /\ ui.pc = "fetch"
    /\ rc \in GitOutcomes(log[ui.at])
    /\ GitEffect(log[ui.at], rc)
    /\ IF rc = "failed"
       THEN /\ log' = Exited(ui.at, rc)
            /\ mats' = Raised(ui.m, "fetch")
            /\ ui' = Idle
            /\ UNCHANGED status_message
       ELSE IF Truthy(ui.branch_name)
       THEN /\ status_message' = "Creating local branch for PR..."
            /\ log' = git(Exited(ui.at, rc), ui.m, "branch",
                          <<ui.branch_name[1], pr[1].head.sha>>)
            /\ ui' = [ui EXCEPT !.pc = "branch", !.at = Len(log) + 1]
            /\ UNCHANGED mats
       ELSE /\ status_message' = "Checking out PR..."
            /\ log' = checkout_ref(Exited(ui.at, rc), ui.m, OrSha(ui.branch_name, pr[1]))
            /\ ui' = [ui EXCEPT !.pc = "checkout", !.at = Len(log) + 1]
            /\ UNCHANGED mats
    /\ UNCHANGED <<pull_requests, pr, quick_panel, input_panel, async_queue, listing,
                   started, http_gets, browser>>

\* As fetch_and_checkout_pr_branched, but the exit status of git branch is not
\* looked at.
fetch_and_checkout_pr_branched_unchecked(rc) ==
    /\ ui.handler = "fetch_and_checkout_pr" /\ ui.pc = "branch"
    /\ rc \in GitOutcomes(log[ui.at])
    /\ GitEffect(log[ui.at], rc)
    /\ status_message' = "Checking out PR..."
    /\ log' = checkout_ref(Exited(ui.at, rc), ui.m, OrSha(ui.branch_name, pr[1]))
    /\ ui' = [ui EXCEPT !.pc = "checkout", !.at = Len(log) + 1]
    /\ UNCHANGED <<pull_requests, pr, quick_panel, input_panel, async_queue, listing,
                   started, mats, http_gets, browser>>

\* fetch_and_checkout_pr, from the return of git branch to checkout_ref or the
\* exception.
fetch_and_checkout_pr_branched(rc) ==
    /\ ui.handler = "fetch_and_checkout_pr" /\ ui.pc = "branch"
    /\ rc \in GitOutcomes(log[ui.at])
    /\ GitEffect(log[ui.at], rc)
    /\ IF rc = "failed"
       THEN /\ log' = Exited(ui.at, rc)
            /\ mats' = Raised(ui.m, "branch")
            /\ ui' = Idle
            /\ UNCHANGED status_message
       ELSE /\ status_message' = "Checking out PR..."
            /\ log' = checkout_ref(Exited(ui.at, rc), ui.m, OrSha(ui.branch_name, pr[1]))
            /\ ui' = [ui EXCEPT !.pc = "checkout", !.at = Len(log) + 1]
            /\ UNCHANGED mats
    /\ UNCHANGED <<pull_requests, pr, quick_panel, input_panel, async_queue, listing,
                   started, http_gets, browser>>

\* As fetch_and_checkout_pr_checked_out, but a failed checkout deletes the
\* branch the materialization created.
fetch_and_checkout_pr_checked_out_rollback(rc) ==
    /\ ui.handler = "fetch_and_checkout_pr" /\ ui.pc = "checkout"
    /\ rc \in GitOutcomes(log[ui.at])
    /\ objects' = objects
    /\ HEAD' = IF rc = "ok" THEN log[ui.at].args[1] ELSE HEAD
    /\ branches' = IF rc = "failed"
                   THEN {b \in branches : b[1] # log[ui.at].args[1]} ELSE branches
    /\ log' = Exited(ui.at, rc)
    /\ mats' = IF rc = "failed" THEN Raised(ui.m, "checkout") ELSE Returned(ui.m)
    /\ ui' = Idle
    /\ UNCHANGED <<pull_requests, pr, quick_panel, input_panel, async_queue, listing,
                   status_message, started, http_gets, browser>>

\* As fetch_and_checkout_pr_checked_out, but the exit status of git checkout is
\* not looked at.
fetch_and_checkout_pr_checked_out_unchecked(rc) ==
    /\ ui.handler = "fetch_and_checkout_pr" /\ ui.pc = "checkout"
    /\ rc \in GitOutcomes(log[ui.at])
    /\ GitEffect(log[ui.at], rc)
    /\ log' = Exited(ui.at, rc)
    /\ mats' = Returned(ui.m)
    /\ ui' = Idle
    /\ UNCHANGED <<pull_requests, pr, quick_panel, input_panel, async_queue, listing,
                   status_message, started, http_gets, browser>>

\* fetch_and_checkout_pr, the return of checkout_ref: the handler's end.
fetch_and_checkout_pr_checked_out(rc) ==
    /\ ui.handler = "fetch_and_checkout_pr" /\ ui.pc = "checkout"
    /\ rc \in GitOutcomes(log[ui.at])
    /\ GitEffect(log[ui.at], rc)
    /\ log' = Exited(ui.at, rc)
    /\ mats' = IF rc = "failed" THEN Raised(ui.m, "checkout") ELSE Returned(ui.m)
    /\ ui' = Idle
    /\ UNCHANGED <<pull_requests, pr, quick_panel, input_panel, async_queue, listing,
                   status_message, started, http_gets, browser>>

\* create_branch_for_pr, from the return of git fetch to git branch or the
\* exception.
create_branch_for_pr_fetched(rc) ==
    /\ ui.handler = "create_branch_for_pr" /\ ui.pc = "fetch"
    /\ rc \in GitOutcomes(log[ui.at])
    /\ GitEffect(log[ui.at], rc)
    /\ IF rc = "failed"
       THEN /\ log' = Exited(ui.at, rc)
            /\ mats' = Raised(ui.m, "fetch")
            /\ ui' = Idle
            /\ UNCHANGED status_message
       ELSE /\ status_message' = "Creating local branch for PR..."
            /\ log' = git(Exited(ui.at, rc), ui.m, "branch",
                          <<ui.branch_name[1], pr[1].head.sha>>)
            /\ ui' = [ui EXCEPT !.pc = "branch", !.at = Len(log) + 1]
            /\ UNCHANGED mats
    /\ UNCHANGED <<pull_requests, pr, quick_panel, input_panel, async_queue, listing,
                   started, http_gets, browser>>

\* create_branch_for_pr, the return of git branch: the handler's end.
create_branch_for_pr_branched(rc) ==
    /\ ui.handler = "create_branch_for_pr" /\ ui.pc = "branch"
    /\ rc \in GitOutcomes(log[ui.at])
    /\ GitEffect(log[ui.at], rc)
    /\ log' = Exited(ui.at, rc)
    /\ mats' = IF rc = "failed" THEN Raised(ui.m, "branch") ELSE Returned(ui.m)
    /\ ui' = Idle
    /\ UNCHANGED <<pull_requests, pr, quick_panel, input_panel, async_queue, listing,
                   status_message, started, http_gets, browser>>

-----------------------------------------------------------------------------
\* GsCreatePullRequestCommand and GsPushAndCreatePullRequestCommand: the
\* create-pull-request flow.  It shares no state with GsPullRequestCommand.

\* The number of times the user runs gs_create_pull_request.
MaxCreateRuns == 2

VARIABLES
    upstream,        \* what get_upstream_for_active_branch() finds: None or
                     \* Some([remote, name])
    integrated,      \* the integrated remote and branch of the settings
    create_queue,    \* run_async calls scheduled by set_timeout_async
    push_commands,   \* gs_push_and_create_pull_request commands run and not
                     \* yet at do_push, each with its arguments
    pushes,          \* the pushes executed, in order
    dialogs,         \* the dialogs shown, in order, each with the user's answer
    opened,          \* the URLs given to open_in_browser, in order
    runs,            \* how often the user has run the command
    reentries        \* how often do_push has run gs_create_pull_request

cvars == <<upstream, integrated, create_queue, push_commands, pushes, dialogs,
           opened, runs, reentries>>

PUSH_PROMPT ==
    "You have not set an upstream for the active branch.  " \o
    "Would you like to push to a remote?"

UnableToDetermineRemote == "Unable to determine remote."

DifferentFromRemote ==
    "Your current branch is different from its remote counterpart. "

\* The local name of the active branch.
ActiveBranch == "feature-x"

\* get_remotes(): the configured remotes and the parts of their URLs.
get_remotes ==
    [origin |-> [host |-> "github.com", owner |-> "acme", repo |-> "widgets"],
     fork   |-> [host |-> "github.com", owner |-> "alice", repo |-> "widgets"]]

RemoteNames == DOMAIN get_remotes

\* The names a branch can have on a remote: the active branch's own and
\* another one.
RemoteBranchNames == {ActiveBranch, "topic"}

IntegratedBranchNames == {"main", "develop"}

\* github.parse_remote(remote_url): the remote descriptor.
parse_remote(remote_url) ==
    [host  |-> remote_url.host,
     owner |-> remote_url.owner,
     repo  |-> remote_url.repo,
     url   |-> "https://" \o remote_url.host \o "/" \o remote_url.owner
                   \o "/" \o remote_url.repo]

get_integrated_remote_url == get_remotes[integrated.remote]
get_integrated_branch_name == integrated.branch

\* The second element of get_branch_status(): empty when the branch and its
\* remote counterpart agree.
Secondaries == {"", "You're ahead by 1."}

\* str.format on a template given as the texts around its "{}" fields.
RECURSIVE format(_, _)
format(template, args) ==
    IF args = <<>>
    THEN template[1]
    ELSE template[1] \o args[1] \o format(Tail(template), Tail(args))

CompareTemplate == <<"", "/compare/", ":", "...", ":", "?expand=1">>

\* No create-pull-request command has been run.
CreateIdle ==
    /\ upstream = None
    /\ integrated = [remote |-> "origin", branch |-> "main"]
    /\ create_queue = 0
    /\ push_commands = <<>>
    /\ pushes = <<>>
    /\ dialogs = <<>>
    /\ opened = <<>>
    /\ runs = 0
    /\ reentries = 0

\* The repository and the settings the command is constructed in.
InitCreate ==
    /\ upstream \in {None} \cup
           {Some([remote |-> r, name |-> b]) : r \in RemoteNames, b \in RemoteBranchNames}
    /\ integrated \in [remote : RemoteNames, branch : IntegratedBranchNames]
    /\ create_queue = 0
    /\ push_commands = <<>>
    /\ pushes = <<>>
    /\ dialogs = <<>>
    /\ opened = <<>>
    /\ runs = 0
    /\ reentries = 0

\* GsCreatePullRequestCommand.run(), run by the user.
GsCreatePullRequestCommand_run ==
    /\ runs < MaxCreateRuns
    /\ runs' = runs + 1
    /\ create_queue' = create_queue + 1
    /\ UNCHANGED <<upstream, integrated, push_commands, pushes, dialogs, opened, reentries>>
    /\ UNCHANGED vars

\* As open_comparision_in_browser, but with base and head exchanged.
open_comparision_in_browser_head_first(owner, branch) ==
    LET base_remote == parse_remote(get_integrated_remote_url)
        url == base_remote.url
        base_owner == base_remote.owner
        base_branch == get_integrated_branch_name
    IN  opened' = Append(opened, format(CompareTemplate,
                             <<url, owner, branch, base_owner, base_branch>>))

\* open_comparision_in_browser(owner, branch)
open_comparision_in_browser(owner, branch) ==
    LET base_remote == parse_remote(get_integrated_remote_url)
        url == base_remote.url
        base_owner == base_remote.owner
        base_branch == get_integrated_branch_name
    IN  opened' = Append(opened, format(CompareTemplate,
                             <<url, base_owner, base_branch, owner, branch>>))

\* As run_async_no_upstream, but the push command is run whatever the answer.
run_async_no_upstream_unasked(answer) ==
    /\ dialogs' = Append(dialogs, [text |-> PUSH_PROMPT, ok |-> answer])
    /\ push_commands' = Append(push_commands, [set_upstream |-> TRUE])
    /\ UNCHANGED opened

\* run_async, no upstream: the push prompt, and on OK the command
\* gs_push_and_create_pull_request with set_upstream.
run_async_no_upstream(answer) ==
    /\ dialogs' = Append(dialogs, [text |-> PUSH_PROMPT, ok |-> answer])
    /\ push_commands' = IF answer
                        THEN Append(push_commands, [set_upstream |-> TRUE])
                        ELSE push_commands
    /\ UNCHANGED opened

\* As run_async_no_remote_branch, but the comparison is opened for the
\* configured upstream.
run_async_no_remote_branch_guessing ==
    /\ open_comparision_in_browser(
           parse_remote(get_remotes[upstream[1].remote]).owner, upstream[1].name)
    /\ UNCHANGED <<dialogs, push_commands>>

\* run_async, an upstream but no active remote branch.
run_async_no_remote_branch ==
    /\ dialogs' = Append(dialogs, [text |-> UnableToDetermineRemote, ok |-> TRUE])
    /\ UNCHANGED <<push_commands, opened>>

\* As run_async_diverged, but the comparison is opened after the dialog.
run_async_diverged_going_on(remote_branch, secondary) ==
    /\ dialogs' = Append(dialogs, [text |-> DifferentFromRemote \o secondary, ok |-> TRUE])
    /\ open_comparision_in_browser(
           parse_remote(get_remotes[remote_branch.remote]).owner, remote_branch.name)
    /\ UNCHANGED push_commands

\* run_async, the branch differs from its remote counterpart.
run_async_diverged(remote_branch, secondary) ==
    /\ dialogs' = Append(dialogs, [text |-> DifferentFromRemote \o secondary, ok |-> TRUE])
    /\ UNCHANGED <<push_commands, opened>>

\* As run_async_compare, but the head is the active branch under its local
\* name.
run_async_compare_local_name(remote_branch) ==
    /\ open_comparision_in_browser(
           parse_remote(get_remotes[remote_branch.remote]).owner, ActiveBranch)
    /\ UNCHANGED <<dialogs, push_commands>>

\* run_async, the remote branch is known and nothing differs.
run_async_compare(remote_branch) ==
    LET owner == parse_remote(get_remotes[remote_branch.remote]).owner
    IN  /\ open_comparision_in_browser(owner, remote_branch.name)
        /\ UNCHANGED <<dialogs, push_commands>>

\* GsCreatePullRequestCommand.run_async(): answer is what the user answers to
\* the push prompt, remote_branch what get_active_remote_branch() returns and
\* secondary what get_branch_status() returns second.
GsCreatePullRequestCommand_run_async(answer, remote_branch, secondary) ==
    /\ create_queue > 0
    /\ create_queue' = create_queue - 1
    /\ IF upstream = None
       THEN run_async_no_upstream(answer)
       ELSE IF remote_branch = None
       THEN run_async_no_remote_branch
       ELSE IF secondary # ""
       THEN run_async_diverged(remote_branch[1], secondary)
       ELSE run_async_compare(remote_branch[1])
    /\ UNCHANGED <<upstream, integrated, pushes, runs, reentries>>
    /\ UNCHANGED vars

\* GsPushToBranchNameCommand.do_push: the push itself.  It raises when git push
\* fails, and a successful push with set_upstream makes the pushed-to branch
\* the upstream of the active branch.
super_do_push(kwargs, remote, branch, rc) ==
    /\ pushes' = Append(pushes, [remote |-> remote, branch |-> branch,
                                 set_upstream |-> kwargs.set_upstream, rc |-> rc])
    /\ upstream' = IF rc = "ok" /\ kwargs.set_upstream
                   THEN Some([remote |-> remote, name |-> branch])
                   ELSE upstream

\* As do_push, but gs_create_pull_request is run however the push ended.
do_push_then_always(remote, branch, rc) ==
    /\ push_commands # <<>>
    /\ push_commands' = Tail(push_commands)
    /\ super_do_push(Head(push_commands), remote, branch, rc)
    /\ create_queue' = create_queue + 1
    /\ reentries' = reentries + 1
    /\ UNCHANGED <<integrated, dialogs, opened, runs>>
    /\ UNCHANGED vars

\* GsPushAndCreatePullRequestCommand.do_push(remote, branch): the push, and
\* when it returned, the command gs_create_pull_request, whose run() schedules
\* run_async.
do_push(remote, branch, rc) ==
    /\ push_commands # <<>>
    /\ push_commands' = Tail(push_commands)
    /\ super_do_push(Head(push_commands), remote, branch, rc)
    /\ IF rc = "ok"
       THEN /\ create_queue' = create_queue + 1
            /\ reentries' = reentries + 1
       ELSE UNCHANGED <<create_queue, reentries>>
    /\ UNCHANGED <<integrated, dialogs, opened, runs>>
    /\ UNCHANGED vars

\* The push command that was run ends without reaching do_push: the user
\* dismisses what GsPushToBranchNameCommand asks before it pushes.  Nothing of
\* this flow is called.
push_dismissed ==
    /\ push_commands # <<>>
    /\ push_commands' = Tail(push_commands)
    /\ UNCHANGED <<upstream, integrated, create_queue, pushes, dialogs, opened, runs,
                   reentries>>
    /\ UNCHANGED vars

-----------------------------------------------------------------------------

ExitStatuses == {"ok", "failed"}

Next ==
    \/ run /\ UNCHANGED cvars
    \/ run_async /\ UNCHANGED cvars
    \/ \E result \in ApiResults : run_async_listed(result) /\ UNCHANGED cvars
    \/ \E p \in {None} \cup {Some(quick_panel.items[i]) : i \in 1..Len(quick_panel.items)} :
          on_select_pr(p) /\ UNCHANGED cvars
    \/ \E idx \in -1..4 : on_select_action(idx) /\ UNCHANGED cvars
    \/ \E text \in Submissions(input_panel.text) : input_done(text) /\ UNCHANGED cvars
    \/ input_cancel /\ UNCHANGED cvars
    \/ \E rc \in ExitStatuses : fetch_and_checkout_pr_fetched(rc) /\ UNCHANGED cvars
    \/ \E rc \in ExitStatuses : fetch_and_checkout_pr_branched(rc) /\ UNCHANGED cvars
    \/ \E rc \in ExitStatuses : fetch_and_checkout_pr_checked_out(rc) /\ UNCHANGED cvars
    \/ \E rc \in ExitStatuses : create_branch_for_pr_fetched(rc) /\ UNCHANGED cvars
    \/ \E rc \in ExitStatuses : create_branch_for_pr_branched(rc) /\ UNCHANGED cvars

\* GsPullRequestCommand after construction, in a window where no
\* create-pull-request command runs.
InitPullRequest == Init /\ CreateIdle

Spec == InitPullRequest /\ [][Next]_<<vars, cvars>>

\* A git process exits, and the thread blocked in self.git goes on.
GitReturns ==
    \E rc \in ExitStatuses :
        \/ fetch_and_checkout_pr_fetched(rc)
        \/ fetch_and_checkout_pr_branched(rc)
        \/ fetch_and_checkout_pr_checked_out(rc)
        \/ create_branch_for_pr_fetched(rc)
        \/ create_branch_for_pr_branched(rc)

FairSpec == Spec /\ WF_vars(GitReturns)

CreateNext ==
    \/ GsCreatePullRequestCommand_run
    \/ \E answer \in BOOLEAN, remote_branch \in {None, upstream}, secondary \in Secondaries :
          GsCreatePullRequestCommand_run_async(answer, remote_branch, secondary)
    \/ \E remote \in RemoteNames, branch \in RemoteBranchNames, rc \in ExitStatuses :
          do_push(remote, branch, rc)
    \/ push_dismissed

\* The create-pull-request flow in a window where GsPullRequestCommand is not
\* run.
InitCreatePullRequest == Init /\ InitCreate

CreateSpec == InitCreatePullRequest /\ [][CreateNext]_<<vars, cvars>>

-----------------------------------------------------------------------------
\* What the properties are stated over.

\* The materializations on record, and the commands of one of them, as places
\* in the log.
Mats == 1..Len(mats)
Commands(m) == {i \in 1..Len(log) : log[i].m = m}

\* The LocalCheckoutIntent a menu entry stands for.
Intent(mat) ==
    CASE mat.choice = 0 -> "DetachedHead"
      [] mat.choice = 1 -> "NewBranch"
      [] mat.choice = 2 -> "NewBranchNoCheckout"

Ended(m) == mats[m].outcome # "running"

\* C1: in every materialization, once git fetch has failed, no git branch and
\* no git checkout (no command at all) is issued afterwards in that operation.
C1_FetchFailureIsFatal ==
    \A i \in 1..Len(log) :
        (log[i].cmd = "fetch" /\ log[i].rc = "failed")
            => \A j \in Commands(log[i].m) : j <= i

\* A materialization asked to create a branch whose fetch failed and that has
\* ended.
C1_Witness ==
    \E m \in Mats :
        /\ mats[m].handler = "fetch_and_checkout_pr" /\ Truthy(mats[m].branch_name)
        /\ Ended(m)
        /\ \E i \in Commands(m) : log[i].cmd = "fetch" /\ log[i].rc = "failed"

\* C2: in fetch_and_checkout_pr with a branch name, once git branch has failed,
\* checkout is never attempted and the operation has failed at the branch step.
C2_BranchFailureAborts ==
    \A i \in 1..Len(log) :
        (/\ log[i].cmd = "branch" /\ log[i].rc = "failed"
         /\ mats[log[i].m].handler = "fetch_and_checkout_pr")
            => /\ \A j \in Commands(log[i].m) : log[j].cmd # "checkout"
               /\ mats[log[i].m].outcome = "Failed"
               /\ mats[log[i].m].step = "branch"

\* A NewBranch materialization whose git branch failed on a name that exists
\* already.
C2_Witness ==
    \E m \in Mats :
        /\ Intent(mats[m]) = "NewBranch" /\ Ended(m)
        /\ \E i \in Commands(m) :
              /\ log[i].cmd = "branch" /\ log[i].rc = "failed"
              /\ log[i].args[1] \in BranchNames

\* C3: a DetachedHead materialization never issues git branch, and a
\* NewBranchNoCheckout materialization never issues git checkout, whatever the
\* pull request and however the git commands end.
C3_IntentLimitsCommands ==
    \A i \in 1..Len(log) :
        /\ Intent(mats[log[i].m]) = "DetachedHead" => log[i].cmd # "branch"
        /\ Intent(mats[log[i].m]) = "NewBranchNoCheckout" => log[i].cmd # "checkout"

\* A NewBranchNoCheckout materialization that has created its branch and ended.
C3_Witness ==
    \E m \in Mats :
        /\ Intent(mats[m]) = "NewBranchNoCheckout" /\ mats[m].outcome = "Done"
        /\ \E i \in Commands(m) : log[i].cmd = "branch" /\ log[i].rc = "ok"

\* C4: the first git command of every materialization is a fetch of the pull
\* request's head.ref from its head.repo.clone_url, and every other command of
\* the materialization is issued after that fetch has returned.
C4_FetchComesFirst ==
    \A m \in Mats :
        \A j \in Commands(m) :
            LET first == CHOOSE i \in Commands(m) : \A k \in Commands(m) : i <= k IN
            /\ log[first].cmd = "fetch"
            /\ log[first].args = <<mats[m].pr.head.repo.clone_url, mats[m].pr.head.ref>>
            /\ j # first => log[j].cmd # "fetch" /\ log[first].rc # "running"

\* A DetachedHead materialization of a commit the repository already has, with
\* its checkout issued.
C4_Witness ==
    \E m \in Mats :
        /\ Intent(mats[m]) = "DetachedHead"
        /\ started = 2
        /\ \E i, j \in Commands(m) :
              /\ log[i].cmd = "fetch" /\ i < j /\ log[j].cmd = "checkout"

\* The commands of materialization m in the order issued, each as its name
\* and arguments.
Issued(m) ==
    LET own == SelectSeq(log, LAMBDA c : c.m = m)
    IN  [i \in 1..Len(own) |-> <<own[i].cmd, own[i].args>>]

AllSucceeded(m) == \A i \in Commands(m) : log[i].rc = "ok"

\* C5: when all its git commands succeed, a NewBranch(name) materialization
\* has issued exactly fetch(clone_url, head.ref), branch(name, head.sha),
\* checkout(name) and ends Done; a DetachedHead one checks out the head SHA.
C5_CommandSequence ==
    \A m \in Mats :
        (Ended(m) /\ AllSucceeded(m)) =>
            /\ mats[m].outcome = "Done"
            /\ Intent(mats[m]) = "NewBranch" =>
                  Issued(m) = << <<"fetch", <<mats[m].pr.head.repo.clone_url,
                                              mats[m].pr.head.ref>> >>,
                                 <<"branch", <<mats[m].branch_name[1],
                                               mats[m].pr.head.sha>> >>,
                                 <<"checkout", <<mats[m].branch_name[1]>> >> >>
            /\ Intent(mats[m]) = "DetachedHead" =>
                  Issued(m) = << <<"fetch", <<mats[m].pr.head.repo.clone_url,
                                              mats[m].pr.head.ref>> >>,
                                 <<"checkout", <<mats[m].pr.head.sha>> >> >>

\* C6: when checkout fails after git branch succeeded in the same
\* materialization, the branch is still there, checkout was the last command
\* issued (nothing rolls the branch back) and the failure is the checkout's.
C6_BranchKeptOnCheckoutFailure ==
    \A m \in Mats :
        \A i, j \in Commands(m) :
            (/\ log[i].cmd = "branch" /\ log[i].rc = "ok"
             /\ log[j].cmd = "checkout" /\ log[j].rc = "failed")
                => /\ <<log[i].args[1], log[i].args[2]>> \in branches
                   /\ \A k \in Commands(m) : k <= j
                   /\ mats[m].outcome = "Failed" /\ mats[m].step = "checkout"

\* A NewBranch materialization that created its branch and failed to check it
\* out.
C6_Witness ==
    \E m \in Mats :
        /\ Intent(mats[m]) = "NewBranch" /\ Ended(m)
        /\ \E i, j \in Commands(m) :
              /\ log[i].cmd = "branch" /\ log[i].rc = "ok"
              /\ log[j].cmd = "checkout" /\ log[j].rc = "failed"

\* C7: dismissing the list, the action menu or the branch-name prompt issues
\* no git command, starts no materialization and leaves the repository as it
\* was.
C7_DismissalIssuesNothing ==
    [][(on_select_pr(None) \/ on_select_action(-1) \/ input_cancel)
          => /\ log' = log /\ mats' = mats /\ started' = started /\ ui' = ui
             /\ repo' = repo]_vars

\* A pull request was selected, nothing was ever issued, and every panel is
\* closed with no request made, no browser opened and no listing pending:
\* the selection ended in the dismissal of a menu or a prompt.
C7_Witness ==
    /\ pr # None /\ listing = "nonempty" /\ async_queue = 0
    /\ quick_panel = NoQuickPanel /\ input_panel = NoInputPanel
    /\ http_gets = <<>> /\ browser = <<>>
    /\ started = 0 /\ log = <<>> /\ HEAD = "master"

\* C8: a git command is issued only after every command issued before it has
\* exited, the commands of one materialization are not separated by another's,
\* and a materialization issues its fetch only when every other has ended.
C8_NoInterleaving ==
    /\ \A i \in 1..Len(log) : log[i].rc = "running" => i = Len(log)
    /\ \A i, j, k \in 1..Len(log) :
          (i < j /\ j < k /\ log[i].m = log[k].m) => log[j].m = log[i].m
    /\ \A m, n \in Mats : (~Ended(m) /\ ~Ended(n)) => m = n

\* A second materialization at its second git command while a run_async waits
\* on the other thread.
C8_Witness ==
    /\ started = 2 /\ async_queue = 1
    /\ \E m \in Mats : ~Ended(m) /\ Cardinality(Commands(m)) = 2
    /\ log[Len(log)].rc = "running"

\* The names of the commands of materialization m, in order.
Steps(m) == [i \in 1..Len(Issued(m)) |-> Issued(m)[i][1]]

Running == \E m \in Mats : ~Ended(m)

\* Every materialization on record is on the path fetch, (branch), checkout;
\* one that has not ended has a git command outstanding and the UI thread
\* waiting for it; Done is reported only after every command succeeded, and
\* Failed names the one command that failed, the last one issued.
C9_Outcome ==
    \A m \in Mats :
        LET last == Len(Steps(m)) IN
        /\ Steps(m) \in {<<"fetch">>, <<"fetch", "branch">>, <<"fetch", "checkout">>,
                         <<"fetch", "branch", "checkout">>}
        /\ mats[m].outcome \in {"running", "Done", "Failed"}
        /\ mats[m].outcome = "running" =>
              /\ ui.m = m /\ ui.pc = Steps(m)[last]
              /\ log[ui.at].m = m /\ log[ui.at].rc = "running"
        /\ mats[m].outcome = "Done" =>
              /\ AllSucceeded(m)
              /\ Steps(m)[last] = IF Intent(mats[m]) = "NewBranchNoCheckout"
                                  THEN "branch" ELSE "checkout"
        /\ mats[m].outcome = "Failed" =>
              /\ mats[m].step = Steps(m)[last]
              /\ \A i \in Commands(m) :
                    log[i].rc = IF \A k \in Commands(m) : k <= i THEN "failed" ELSE "ok"

\* C9: once its fetch is issued a materialization ends, Done or Failed at one
\* step, along fetch, (branch), checkout, and never Done after a failure.
C9_RunsToCompletion ==
    /\ []C9_Outcome
    /\ Running ~> ~Running

\* A materialization that went through all three commands and failed at the
\* last.
C9_Witness ==
    \E m \in Mats :
        /\ Steps(m) = <<"fetch", "branch", "checkout">>
        /\ mats[m].outcome = "Failed" /\ mats[m].step = "checkout"

\* C10: a run_async says "No pull requests found." exactly when the hosting
\* API answered it with zero open pull requests; one whose listing failed does
\* not say it, opens no panel and leaves the status bar as it was.
C10_EmptyIsNotFailed ==
    [][(listing = "pending" /\ listing' # "pending") =>
          /\ status_message' = NoPullRequests <=> listing' = "empty"
          /\ listing' = "failed" => /\ quick_panel' = quick_panel
                                    /\ status_message' = status_message]_vars

\* The first listing failed: the status bar shows the loading message, not
\* "No pull requests found.", and no panel is open.
C10_Witness ==
    /\ listing = "failed"
    /\ status_message = GettingPullRequests
    /\ quick_panel = NoQuickPanel
    /\ pr = None

\* C16: a step that chooses 'View diff.' or 'Open in browser.' issues no git
\* command, starts no materialization and leaves branches, HEAD and objects as
\* they are; 'View diff.' performs exactly one GET, of the selected pull
\* request's diff_url, and 'Open in browser.' performs none.
C16_ViewingIssuesNoGit ==
    [][\A idx \in {3, 4} :
          on_select_action(idx)
              => /\ log' = log /\ mats' = mats /\ started' = started
                 /\ repo' = repo
                 /\ ui' = ui
                 /\ idx = 3 => http_gets' = <<pr[1].diff_url>> /\ browser' = <<>>
                 /\ idx = 4 => http_gets' = <<>> /\ browser' = <<pr[1].html_url>>]_vars

\* 'View diff.' was chosen for the second pull request after a materialization
\* of an earlier selection: the diff was requested once, the record of git
\* commands is what that materialization left.
C16_Witness ==
    /\ pr = Some(PullRequest(2))
    /\ http_gets = <<PullRequest(2).diff_url>>
    /\ browser = <<>>
    /\ quick_panel = NoQuickPanel
    /\ started = 1 /\ ~Running
    /\ HEAD = "sha1"

\* The pull request an open branch-name prompt was opened for: the one whose
\* number the offered text carries.
PromptedFor(panel) ==
    CHOOSE n \in 1..NumPRs : InitialText(PullRequest(n)) = panel.text

\* C17: every git command of one materialization refers to the pull request
\* that was selected when its action was chosen: the materialization an
\* answered branch-name prompt starts is of the pull request the prompt was
\* opened for, whatever was selected in the window since, and each of its
\* commands names that pull request's clone_url and head.ref, its head.sha or
\* the branch made for it.
C17_CommandsOfTheChosenPR ==
    /\ [][\A text \in Submissions(input_panel.text) :
             input_done(text)
                 => mats'[Len(mats')].pr = PullRequest(PromptedFor(input_panel))]_vars
    /\ [](\A i \in 1..Len(log) :
             LET p == mats[log[i].m].pr IN
             CASE log[i].cmd = "fetch" ->
                      log[i].args = <<p.head.repo.clone_url, p.head.ref>>
               [] log[i].cmd = "branch" -> log[i].args[2] = p.head.sha
               [] log[i].cmd = "checkout" ->
                      log[i].args[1] \in {p.head.sha} \cup
                          {log[j].args[1] : j \in {k \in Commands(log[i].m) :
                                                       log[k].cmd = "branch"}})

\* C18: in a materialization started by 'Checkout as local branch.' with a
\* submitted branch name, every checkout comes after a successful git branch
\* that created a local branch of the submitted name, and its target is that
\* branch and never the bare head SHA; the empty string is a submitted name
\* like any other.
C18_BranchBeforeCheckout ==
    \A m \in Mats :
        (mats[m].choice = 1 /\ mats[m].branch_name # None)
            => \A i \in Commands(m) :
                   log[i].cmd = "checkout"
                       => /\ log[i].args[1] # mats[m].pr.head.sha
                          /\ \E j \in Commands(m) :
                                /\ j < i
                                /\ log[j].cmd = "branch" /\ log[j].rc = "ok"
                                /\ log[j].args[1] = mats[m].branch_name[1]

-----------------------------------------------------------------------------
\* The create-pull-request flow.

\* What get_active_remote_branch() and get_branch_status() can return.
RemoteBranches == {None, upstream}

\* The comparison of head_owner:head_branch against base_branch of the
\* repository `base` describes.
ExpectedCompareUrl(base, base_branch, head_owner, head_branch) ==
    base.url \o "/compare/" \o base.owner \o ":" \o base_branch \o "..."
        \o head_owner \o ":" \o head_branch \o "?expand=1"

LastDialog == dialogs[Len(dialogs)]

\* C11: when the active branch has no upstream and the push prompt is
\* accepted, the push command is run with set_upstream in that very step and
\* nothing else happens in it; every push that command executes has
\* set_upstream; do_push runs gs_create_pull_request (schedules run_async)
\* exactly when the push succeeded, and nothing else re-enters the flow: not a
\* failed push, not a push command that ends without pushing; and no
\* comparison URL is opened while there is no upstream, that is before the
\* re-entry.
C11_PushThenReenter ==
    /\ [][/\ \A remote_branch \in RemoteBranches, secondary \in Secondaries :
                (/\ upstream = None
                 /\ GsCreatePullRequestCommand_run_async(TRUE, remote_branch, secondary))
                    => /\ push_commands' = Append(push_commands, [set_upstream |-> TRUE])
                       /\ opened' = opened /\ pushes' = pushes
                       /\ reentries' = reentries
                       /\ create_queue' = create_queue - 1
          /\ \A remote \in RemoteNames, branch \in RemoteBranchNames, rc \in ExitStatuses :
                do_push(remote, branch, rc)
                    => /\ Len(pushes') = Len(pushes) + 1
                       /\ pushes'[Len(pushes')].set_upstream
                       /\ pushes'[Len(pushes')].rc = rc
                       /\ opened' = opened
                       /\ rc = "ok" => /\ reentries' = reentries + 1
                                       /\ create_queue' = create_queue + 1
                       /\ rc = "failed" => /\ reentries' = reentries
                                           /\ create_queue' = create_queue
          /\ reentries' # reentries
                => /\ Len(pushes') = Len(pushes) + 1
                   /\ pushes'[Len(pushes')].rc = "ok"
          /\ pushes' # pushes
                => /\ push_commands # <<>>
                   /\ push_commands' = Tail(push_commands)]_cvars
    /\ [](upstream = None => opened = <<>> /\ reentries = 0)

\* The prompt was accepted once, the push succeeded, the flow was re-entered
\* and has opened the comparison.
C11_Witness ==
    /\ runs = 1
    /\ dialogs = <<[text |-> PUSH_PROMPT, ok |-> TRUE]>>
    /\ Len(pushes) = 1 /\ pushes[1].rc = "ok" /\ pushes[1].set_upstream
    /\ reentries = 1
    /\ create_queue = 0
    /\ Len(opened) = 1

\* C12: when an upstream is configured and get_active_remote_branch() returns
\* nothing, run_async shows 'Unable to determine remote.' and does nothing
\* else: no URL is opened, no push command is run, no push is executed.
C12_UnableToDetermineRemote ==
    [][\A answer \in BOOLEAN, secondary \in Secondaries :
          (/\ upstream # None
           /\ GsCreatePullRequestCommand_run_async(answer, None, secondary))
              => /\ dialogs' = Append(dialogs, [text |-> "Unable to determine remote.",
                                               ok |-> TRUE])
                 /\ opened' = opened
                 /\ push_commands' = push_commands /\ pushes' = pushes
                 /\ upstream' = upstream
                 /\ create_queue' = create_queue - 1 /\ reentries' = reentries]_cvars

\* With an upstream configured from the start, the one run of the command has
\* ended with the message.
C12_Witness ==
    /\ upstream # None
    /\ runs = 1 /\ create_queue = 0
    /\ dialogs = <<[text |-> "Unable to determine remote.", ok |-> TRUE]>>
    /\ opened = <<>> /\ pushes = <<>> /\ push_commands = <<>>

\* C13: when the upstream and the remote branch are known and
\* get_branch_status() reports a difference, run_async shows it after 'Your
\* current branch is different from its remote counterpart. ' and does nothing
\* else: no URL is opened.
C13_DivergenceAborts ==
    [][\A answer \in BOOLEAN, secondary \in Secondaries \ {""} :
          (/\ upstream # None
           /\ GsCreatePullRequestCommand_run_async(answer, upstream, secondary))
              => /\ dialogs' = Append(dialogs,
                        [text |-> "Your current branch is different from its remote counterpart. "
                                      \o secondary,
                         ok |-> TRUE])
                 /\ opened' = opened
                 /\ push_commands' = push_commands /\ pushes' = pushes
                 /\ create_queue' = create_queue - 1 /\ reentries' = reentries]_cvars

\* After a push made the upstream, the re-entered flow found the branch ahead
\* of its remote counterpart and stopped there.
C13_Witness ==
    /\ reentries = 1 /\ create_queue = 0
    /\ Len(dialogs) = 2
    /\ LastDialog.text =
           "Your current branch is different from its remote counterpart. You're ahead by 1."
    /\ opened = <<>>

\* C14, as claimed: with the upstream resolved and nothing different, run_async
\* opens exactly one comparison URL, whose head is the active branch, owned by
\* the owner of the upstream's remote, and whose base is the integrated branch
\* of the integrated remote.
C14_ActiveBranchAsHead ==
    [][\A answer \in BOOLEAN :
          (/\ upstream # None
           /\ GsCreatePullRequestCommand_run_async(answer, upstream, ""))
              => opened' = Append(opened,
                     ExpectedCompareUrl(parse_remote(get_remotes[integrated.remote]),
                                        integrated.branch,
                                        get_remotes[upstream[1].remote].owner,
                                        ActiveBranch))]_cvars

\* C14, amended: with the upstream resolved and nothing different, run_async
\* opens exactly one comparison URL, whose head is the active branch's remote
\* branch under the name it has on the remote, owned by the owner of that
\* remote, and whose base is the integrated branch of the integrated remote;
\* nothing else happens.
C14_RemoteBranchAsHead ==
    [][\A answer \in BOOLEAN :
          (/\ upstream # None
           /\ GsCreatePullRequestCommand_run_async(answer, upstream, ""))
              => /\ opened' = Append(opened,
                        ExpectedCompareUrl(parse_remote(get_remotes[integrated.remote]),
                                           integrated.branch,
                                           get_remotes[upstream[1].remote].owner,
                                           upstream[1].name))
                 /\ dialogs' = dialogs
                 /\ push_commands' = push_commands /\ pushes' = pushes]_cvars

\* The active branch feature-x tracks topic on the fork, and the comparison
\* was opened for it.
C14_Witness ==
    /\ upstream = Some([remote |-> "fork", name |-> "topic"])
    /\ integrated = [remote |-> "origin", branch |-> "develop"]
    /\ runs = 1 /\ create_queue = 0
    /\ dialogs = <<>>
    /\ opened = <<"https://github.com/acme/widgets/compare/acme:develop...alice:topic?expand=1">>

\* C15: every URL given to the browser is the base's url, '/compare/', the
\* base owner, ':', the base branch, '...', the head owner, ':', the head
\* branch and '?expand=1', in this order; for the base github.com/acme/widgets
\* with 'main', and the head 'alice', 'feature-x', it is
\* https://github.com/acme/widgets/compare/acme:main...alice:feature-x?expand=1.
C15_CompareUrl ==
    [][opened' # opened
          => /\ upstream # None
             /\ LET base == parse_remote(get_remotes[integrated.remote])
                    head_owner == get_remotes[upstream[1].remote].owner
                    head_branch == upstream[1].name
                    url == opened'[Len(opened')]
                IN  /\ opened' = Append(opened, url)
                    /\ url = base.url \o "/compare/" \o base.owner \o ":"
                                 \o integrated.branch \o "..." \o head_owner \o ":"
                                 \o head_branch \o "?expand=1"
                    /\ (/\ base.host = "github.com" /\ base.owner = "acme"
                        /\ base.repo = "widgets" /\ integrated.branch = "main"
                        /\ head_owner = "alice" /\ head_branch = "feature-x")
                           => url = "https://github.com/acme/widgets/compare/acme:main...alice:feature-x?expand=1"]_cvars

\* The comparison of alice's feature-x against main of acme/widgets was opened.
C15_Witness ==
    /\ integrated = [remote |-> "origin", branch |-> "main"]
    /\ upstream = Some([remote |-> "fork", name |-> "feature-x"])
    /\ opened = <<"https://github.com/acme/widgets/compare/acme:main...alice:feature-x?expand=1">>

\* C19: when the active branch has no upstream and the push prompt is
\* declined, run_async ends with nothing done: no push command run, no push
\* executed, no URL opened, no run_async scheduled; and one do_push schedules
\* at most one run_async, so there are never more re-entries than pushes.
C19_DeclineEndsTheFlow ==
    /\ [][/\ \A remote_branch \in RemoteBranches, secondary \in Secondaries :
                (/\ upstream = None
                 /\ GsCreatePullRequestCommand_run_async(FALSE, remote_branch, secondary))
                    => /\ push_commands' = push_commands /\ pushes' = pushes
                       /\ opened' = opened
                       /\ reentries' = reentries
                       /\ create_queue' = create_queue - 1
                       /\ upstream' = upstream
          /\ \A remote \in RemoteNames, branch \in RemoteBranchNames, rc \in ExitStatuses :
                do_push(remote, branch, rc)
                    => /\ reentries' <= reentries + 1
                       /\ create_queue' <= create_queue + 1]_cvars
    /\ [](reentries <= Len(pushes))

\* The prompt was declined in the first run and nothing followed; in the
\* second run it was accepted, and the one push re-entered the flow once.
C19_Witness ==
    /\ dialogs = <<[text |-> PUSH_PROMPT, ok |-> FALSE], [text |-> PUSH_PROMPT, ok |-> TRUE]>>
    /\ Len(pushes) = 1 /\ pushes[1].rc = "ok"
    /\ reentries = 1
    /\ opened = <<>>

=============================================================================
